---- MODULE Spec2Model ----
(***************************************************************************)
(* Model of ai_ta_backend/nomic_logging.py: log_convo_to_nomic under its   *)
(* backoff.on_exception wrapper, create_nomic_map, and the remote Nomic    *)
(* project they read and write.                                            *)
(*                                                                         *)
(* Environment assumptions (the collaborators are not part of the file):   *)
(*  - the remote project is a list of records (metadata row + embedding);  *)
(*    project.maps[1].data.df / .embeddings.latent return its current      *)
(*    content in order, delete_data removes by id, add_embeddings appends; *)
(*  - wait_for_project_lock is an exclusive lock held for the with-block;  *)
(*  - every remote call may fail with one of the LOCK_EXCEPTIONS messages  *)
(*    or with another message;                                             *)
(*  - AtlasProject(name, add_datums_if_exists=True) raises the             *)
(*    NOT_CONFIGURED message exactly when the project does not exist;      *)
(*  - backoff.on_exception is backoff 2.x: expo yields factor * base^n,    *)
(*    full jitter is the default, giveup is called before the max_tries    *)
(*    test, and an exception raised by giveup propagates.                  *)
(* Time is counted in ticks of half a second.                              *)
(***************************************************************************)
EXTENDS Integers, Sequences, FiniteSets, TLC

\* ---------------------------------------------------------------- bounds
\* sync calls started in one run of a single caller
MaxCalls == 1
\* collaborator failures injected in one run of two concurrent callers
ConcFaults == 1
\* the wall clock stops advancing here
MaxClock == 3
\* historical rows of the course range over MIN_ROWS-1 .. MIN_ROWS+ExtraRows
ExtraRows == 0

\* ------------------------------------------------------ program constants
MAX_TRIES == 5
EXPO_BASE == 10
\* factor 1.5 seconds, in ticks
EXPO_FACTOR == 3
MIN_ROWS == 19
\* strftime('%Y-%m-%d %H:%M:%S') keeps whole seconds
TICKS_PER_SEC == 2

LOCK_EXCEPTIONS ==
  { "Project is locked for state access! Please wait until the project is unlocked to access embeddings.",
    "Project is locked for state access! Please wait until the project is unlocked to access data.",
    "Project is currently indexing and cannot ingest new datums. Try again later." }

NOT_CONFIGURED == "You must specify a unique_id_field when creating a new project."

\* some message of a remote or local failure that is neither of the above
OTHER_ERROR == "Internal Server Error"
INDEX_ERROR == "list index out of range"
KEY_ERROR == "conversation"
ALREADY_EXISTS == "Project already exists"
\* astype(int) on an id column that holds NaN
CAST_ERROR == "Cannot convert non-finite values (NA or inf) to integer"

\* the messages a failing collaborator call may carry
ErrMsgs == LOCK_EXCEPTIONS \cup {OTHER_ERROR}

Callers == {"A", "B"}
NoCaller == "-"
COURSE == "ECE"

\* ------------------------------------------------------------ python values
PyNone == [isStr |-> FALSE, s |-> ""]
PyStr(s) == [isStr |-> TRUE, s |-> s]

SuccessLogged == PyStr("Successfully logged for ECE")
SuccessCreated == PyStr("Successfully created Nomic map for ECE")
Failed == PyStr("failed")

NaN == 0 - 1

Unlimited == 0 - 1

Max(a, b) == IF a >= b THEN a ELSE b

\* ------------------------------------------------------------ messages
StrContent(t) == [list |-> FALSE, str |-> t, parts |-> <<>>]
ListContent(ps) == [list |-> TRUE, str |-> "", parts |-> ps]

U1 == [role |-> "user", content |-> StrContent("re: q1")]
A1 == [role |-> "assistant", content |-> StrContent("a1")]
U2 == [role |-> "user", content |-> ListContent(<<"q2", "img">>)]

HistIds == << "h1", "h2", "h3", "h4", "h5", "h6", "h7", "h8", "h9", "h10",
              "h11", "h12", "h13", "h14", "h15", "h16", "h17", "h18", "h19",
              "h20", "h21", "h22", "h23", "h24" >>

\* conversation ids a caller may sync: a historical one, a new one, and one
\* that equals another column's value (the course name)
CIDS == {"h2", "c9", COURSE}

\* a conversation value without the 'conversation' key
Malformed == [wf |-> FALSE, id |-> "", user_email |-> "", messages |-> <<>>]

Conversation(c, ms) ==
  [wf |-> TRUE, id |-> c, user_email |-> "u@x", messages |-> ms]

\* the conversation values callers pass
ConvInputs ==
  { Malformed,
    Conversation("h2", <<>>), Conversation("h2", <<U2>>),
    Conversation("h2", <<U1, A1, U2>>),
    Conversation("c9", <<>>), Conversation("c9", <<U1, A1, U2>>),
    Conversation(COURSE, <<U2>>) }

\* ------------------------------------------------------ Transcript Formatter
Emoji(role) == IF role = "user" THEN "raising-hand " ELSE "robot "

\* isinstance(content, list) ? content[0]['text'] : content
ResolveText(content) ==
  IF content.list THEN content.parts[1] ELSE content.str

\* "\n>>> " + emoji + role + ": " + text + "\n"
FormatLine(m) == <<Emoji(m.role), m.role, ResolveText(m.content)>>

FormatAll(msgs) == [i \in 1..Len(msgs) |-> FormatLine(msgs[i])]

\* a variant that logs every message of the conversation
LastTwoAll(msgs) == msgs

\* messages[-2:]
LastTwo(msgs) == SubSeq(msgs, Max(1, Len(msgs) - 1), Len(msgs))

\* text.split(": ")[0] of the text that follows the role marker
SplitColon(t) == IF t = "re: q1" THEN "re" ELSE t

\* prev_convo.split("\n")[1].split(": ")[1]
FirstMessageOf(prev_convo) == SplitColon(prev_convo[1][3])

\* strftime('%Y-%m-%d %H:%M:%S'): drops the sub-second part
Strftime(t) == (t \div TICKS_PER_SEC) * TICKS_PER_SEC

\* OpenAIEmbeddings.embed_documents: one vector per text
Embed(content) == [of |-> content]

\* ------------------------------------------------------------ remote project
NoIndex == [exists |-> FALSE, recs |-> <<>>]

\* a project all of whose points have been deleted
Emptied == [exists |-> TRUE, recs |-> <<>>]

Rec(id, convo, cid, email, fq, created, modified, emb) ==
  [ id |-> id, course |-> COURSE, conversation |-> convo,
    conversation_id |-> cid, user_email |-> email, first_query |-> fq,
    created_at |-> created, modified_at |-> modified, emb |-> emb ]

NoRec == Rec(0, <<>>, "", "", StrContent(""), 0, 0, Embed(StrContent("")))

MaxOf(S) == CHOOSE x \in S : \A y \in S : y <= x
MinOf(S) == CHOOSE x \in S : \A y \in S : x <= y

\* map_metadata_df['id'].max(): NaN on an empty frame
LastId(recs) ==
  IF recs = <<>> THEN NaN ELSE MaxOf({recs[i].id : i \in DOMAIN recs})

\* map_metadata_df['id'].astype(int) raises on a NaN id
HasNaNId(recs) == \E i \in DOMAIN recs : recs[i].id = NaN

\* last_id + 1 (NaN + 1 is NaN)
NextId(last_id) == IF last_id = NaN THEN NaN ELSE last_id + 1

\* project.delete_data([str(prev_id)])
DeleteData(recs, id) == SelectSeq(recs, LAMBDA r : r.id # id)

\* project.add_embeddings(embeddings, data)
AddEmbeddings(recs, r) == Append(recs, r)

\* ------------------------------------------------------ Conversation Locator
\* conversation_id in map_metadata_df.values: any string cell of any column
InValues(recs, cid) ==
  \E i \in DOMAIN recs :
     \/ recs[i].conversation_id = cid
     \/ recs[i].course = cid
     \/ recs[i].user_email = cid
     \/ (~recs[i].first_query.list /\ recs[i].first_query.str = cid)

\* map_metadata_df[map_metadata_df['conversation_id'] == conversation_id]
MatchRows(recs, cid) == {i \in DOMAIN recs : recs[i].conversation_id = cid}

\* map_embeddings_df[prev_index - 1], prev_index the 0-based row label k-1;
\* index -1 is the last row
EmbeddingAt(recs, k) == IF k = 1 THEN recs[Len(recs)].emb ELSE recs[k - 1].emb

\* the fields kept of the prior record (lines 94-99)
PrevData(recs, cid) ==
  LET k == MinOf(MatchRows(recs, cid))
  IN  [ id |-> recs[k].id,
        conversation |-> recs[k].conversation,
        created_at |-> Strftime(recs[k].created_at),
        emb |-> EmbeddingAt(recs, k) ]

NoPrev == [id |-> 0, conversation |-> <<>>, created_at |-> 0,
           emb |-> Embed(StrContent(""))]

\* ------------------------------------------------------ Record Merge Engine
\* a variant that writes the prior record's id back
UpdateRowIdKeepsPrev(last_id, prev_id) == prev_id

\* "id": last_id + 1 of the UPDATE branch (line 130)
UpdateRowId(last_id, prev_id) == NextId(last_id)

\* "created_at": created_at of the UPDATE branch (line 133)
UpdateCreatedAt(prev_created, t) == prev_created

\* lines 104-135
MergedRecord(conv, prev, last_id, t) ==
  Rec( UpdateRowId(last_id, prev.id),
       prev.conversation \o FormatAll(LastTwo(conv.messages)),
       conv.id, conv.user_email,
       StrContent(FirstMessageOf(prev.conversation)),
       UpdateCreatedAt(prev.created_at, t), Strftime(t), prev.emb )

\* lines 139-177
InsertRecord(conv, last_id, t) ==
  LET first_message == ResolveText(conv.messages[1].content)
  IN  Rec( NextId(last_id), FormatAll(conv.messages), conv.id,
           conv.user_email, StrContent(first_message),
           Strftime(t), Strftime(t), Embed(StrContent(first_message)) )

\* ------------------------------------------------------ Index Bootstrap Policy
\* a row of the llm-convo-monitor table
HistRow(i) ==
  [ user_email |-> "u@x", created_at |-> 1,
    convo |-> [ id |-> HistIds[i],
                messages |-> IF i % 2 = 1
                               THEN <<U1, A1>>
                               ELSE <<[role |-> "user", content |-> StrContent("q0")], A1>> ] ]

\* lines 264-323: the record of historical row i
BootRow(i, log, t) ==
  LET row == HistRow(i)
      first_message == ResolveText(row.convo.messages[1].content)
      conversation ==
        FormatAll(row.convo.messages) \o
          (IF row.convo.id = log.id THEN FormatAll(log.messages) ELSE <<>>)
  IN  Rec( i, conversation, row.convo.id, row.user_email,
           StrContent(first_message), Strftime(row.created_at), Strftime(t),
           Embed(StrContent(first_message)) )

ConversationExists(log, n) == \E i \in 1..n : HistRow(i).convo.id = log.id

\* lines 325-354: the record of the triggering conversation
BootNew(log, n, t) ==
  Rec( n + 1, FormatAll(log.messages), log.id, log.user_email,
       log.messages[1].content, Strftime(t), Strftime(t),
       Embed(log.messages[1].content) )

BootRecords(log, n, t) ==
  [i \in 1..n |-> BootRow(i, log, t)] \o
    (IF ConversationExists(log, n) THEN <<>> ELSE <<BootNew(log, n, t)>>)

\* a variant that defers one row longer
TooFewRowsInclusive(n) == n <= MIN_ROWS

\* len(data) < 19 (line 250)
TooFewRows(n) == n < MIN_ROWS

\* the except clause of create_nomic_map (lines 373-381)
Caught(idx, m, injected) ==
  [ index |-> idx, ret |-> Failed,
    reported |-> IF m = NOT_CONFIGURED THEN 0 ELSE 1,
    err |-> m, raised |-> FALSE, injected |-> injected ]

\* create_nomic_map(course_name, log_data): the outcomes it can have on
\* remote state idx with n historical rows at time t
create_nomic_map(idx, log, n, t) ==
  LET created == [exists |-> TRUE, recs |-> BootRecords(log, n, t)]
  IN  \* nomic.login / supabase.create_client, outside the try
      { [index |-> idx, ret |-> PyNone, reported |-> 0, err |-> OTHER_ERROR,
         raised |-> TRUE, injected |-> TRUE] }
      \cup
      \* the query fails
      { Caught(idx, m, TRUE) : m \in ErrMsgs }
      \cup
      IF TooFewRows(n)
        THEN { [index |-> idx, ret |-> PyNone, reported |-> 0, err |-> "",
                raised |-> FALSE, injected |-> FALSE] }
      ELSE IF ~ConversationExists(log, n) /\ log.messages = <<>>
        THEN { Caught(idx, INDEX_ERROR, FALSE) }
      ELSE \* embed_documents or map_embeddings fails
           { Caught(idx, m, TRUE) : m \in ErrMsgs \cup {NOT_CONFIGURED} }
           \cup
           IF idx.exists
             THEN { Caught(idx, ALREADY_EXISTS, FALSE) }
             ELSE \* create_index fails after the project was created
                  { Caught(created, m, TRUE) : m \in ErrMsgs }
                  \cup
                  { [index |-> created, ret |-> SuccessCreated,
                     reported |-> 0, err |-> "", raised |-> FALSE,
                     injected |-> FALSE] }

\* ------------------------------------------------------ Index Descriptor
\* {"map_id": None, "map_link": None}
EmptyDescriptor == [map_id |-> PyNone, map_link |-> PyNone]

\* {"map_id": f"iframe{map.id}", "map_link": map.map_link}
Descriptor == [map_id |-> PyStr("iframe-ECE"), map_link |-> PyStr("link-ECE")]

NoMapCall ==
  [outcome |-> "none", ret |-> EmptyDescriptor, reported |-> 0, err |-> "",
   injected |-> FALSE]

\* get_nomic_map(course_name): the outcomes it can have on remote state idx
get_nomic_map(idx) ==
  \* nomic.login fails, outside the try
  { [outcome |-> "raised", ret |-> EmptyDescriptor, reported |-> 0,
     err |-> OTHER_ERROR, injected |-> TRUE] }
  \cup
  \* AtlasProject(...) or get_map fails: reported to sentry
  { [outcome |-> "returned", ret |-> EmptyDescriptor, reported |-> 1,
     err |-> m, injected |-> TRUE] : m \in ErrMsgs }
  \cup
  IF ~idx.exists
    THEN \* the course has no project: not reported
         { [outcome |-> "returned", ret |-> EmptyDescriptor, reported |-> 0,
            err |-> NOT_CONFIGURED, injected |-> FALSE] }
    ELSE { [outcome |-> "returned", ret |-> Descriptor, reported |-> 0,
            err |-> "", injected |-> FALSE] }

\* ------------------------------------------------------ Retry/Backoff Controller
\* exceptions: Exception({"exception": msg}) is wrapped, anything else is raw
Wrapped(m) == [wrapped |-> TRUE, msg |-> m]
Raw(m) == [wrapped |-> FALSE, msg |-> m]

\* (e_args,) = e.args; e_args['exception'] fails on a raw exception
giveup_hdlr_raises(e) == ~e.wrapped

\* a variant that gives up on every exception
giveup_hdlr_always(e) == TRUE

\* True = stop retrying (and report to sentry)
giveup_hdlr(e) == e.msg \notin LOCK_EXCEPTIONS

\* a variant whose first value is factor * base
backoff_strategy_late(n) == EXPO_FACTOR * EXPO_BASE ^ (n + 1)

\* backoff.expo(base=10, factor=1.5): the n-th value, n = 0, 1, ...
backoff_strategy(n) == EXPO_FACTOR * EXPO_BASE ^ n

\* backoff.full_jitter: random.uniform(0, value)
full_jitter(value) == {0, value}

\* a variant that allows one try too many
max_tries_off_by_one(t) == t = MAX_TRIES + 1

\* tries == max_tries
max_tries_exceeded(t) == t = MAX_TRIES

\* the except branch of backoff's retry loop after try number t raised e
retry(e, t) ==
  IF giveup_hdlr_raises(e)
    THEN { [kind |-> "raised", rep |-> 0, wait |-> 0] }
  ELSE IF giveup_hdlr(e) \/ max_tries_exceeded(t)
    THEN { [kind |-> "returned", rep |-> IF giveup_hdlr(e) THEN 1 ELSE 0,
            wait |-> 0] }
  ELSE { [kind |-> "backoff", rep |-> 0, wait |-> w] :
           w \in full_jitter(backoff_strategy(t - 1)) }

\* what a raised message counts as in the attempt history
KindOf(e) ==
  IF ~e.wrapped THEN "raw"
  ELSE IF e.msg \in LOCK_EXCEPTIONS THEN "lock"
  ELSE IF e.msg = NOT_CONFIGURED THEN "nc" ELSE "perm"

\* ------------------------------------------------------------ state
VARIABLES
  index,        \* the course's remote project: [exists, recs]
  lockHolder,   \* the caller inside "with project.wait_for_project_lock()"
  now,          \* the wall clock, in ticks
  nrows,        \* rows of the course in the llm-convo-monitor table
  active,       \* the callers that sync conversations in this run
  callsLeft,    \* sync calls that may still start
  faultsLeft,   \* collaborator failures that may still be injected
                \* (Unlimited: any number)
  firstCreated, \* history: <<conversation_id, created_at>> of each first insertion
  pc,           \* per caller: where its call stands
  conv,         \* per caller: the conversation argument
  tries,        \* per caller: backoff's try counter
  hist,         \* per caller: how each try of the call ended
  wait,         \* per caller: the last backoff sleep, in ticks
  path,         \* per caller: "update" or "insert" branch of the try
  last_id,      \* per caller: last_id read from the snapshot
  prev,         \* per caller: prior record's fields (UPDATE branch)
  meta,         \* per caller: the record about to be added
  result,       \* per caller: the value the call returned
  outcome,      \* per caller: "none", "returned" or "raised"
  reported,     \* per caller: sentry reports made by the call
  boots,        \* per caller: create_nomic_map invocations of the call
  bootResult,   \* per caller: what create_nomic_map returned
  bootErr,      \* per caller: the message create_nomic_map failed with
  mapCall,      \* per caller: how its latest get_nomic_map call ended
  hadRecord     \* history, per caller: the project held a record of the
                \* conversation when the call started

env == <<now, nrows, active, callsLeft>>
ctl == <<pc, hist, wait, result, outcome, reported>>
attemptLocals == <<path, last_id, prev, meta>>
boot == <<boots, bootResult, bootErr>>
vars == <<index, lockHolder, faultsLeft, firstCreated, env, ctl, conv, tries,
          attemptLocals, boot, mapCall, hadRecord>>

InitCallers ==
  /\ lockHolder = NoCaller
  /\ pc = [p \in Callers |-> "idle"]
  /\ conv = [p \in Callers |-> Malformed]
  /\ tries = [p \in Callers |-> 0]
  /\ hist = [p \in Callers |-> <<>>]
  /\ wait = [p \in Callers |-> 0]
  /\ path = [p \in Callers |-> "none"]
  /\ last_id = [p \in Callers |-> 0]
  /\ prev = [p \in Callers |-> NoPrev]
  /\ meta = [p \in Callers |-> NoRec]
  /\ result = [p \in Callers |-> PyNone]
  /\ outcome = [p \in Callers |-> "none"]
  /\ reported = [p \in Callers |-> 0]
  /\ boots = [p \in Callers |-> 0]
  /\ bootResult = [p \in Callers |-> PyNone]
  /\ bootErr = [p \in Callers |-> ""]
  /\ mapCall = [p \in Callers |-> NoMapCall]
  /\ hadRecord = [p \in Callers |-> FALSE]

\* history bookkeeping: the created_at a synced conversation id was first
\* stored with
FirstSeen(fc, recs) ==
  fc \cup { <<recs[i].conversation_id, recs[i].created_at>> :
            i \in { j \in DOMAIN recs :
                      /\ recs[j].conversation_id \in CIDS
                      /\ \A x \in fc : x[1] # recs[j].conversation_id
                      /\ \A k \in 1..(j - 1) :
                           recs[k].conversation_id # recs[j].conversation_id } }

\* the project create_nomic_map makes of n historical rows for a triggering
\* conversation that matches none of them
Bootstrapped(n) ==
  [ exists |-> TRUE,
    recs |-> BootRecords(Conversation("c0", <<U1, A1>>), n, 0) ]

\* a course without a project, or one whose project an earlier call has
\* bootstrapped
InitIndex ==
  /\ index \in {NoIndex, Bootstrapped(nrows)}
  /\ index.exists => nrows >= MIN_ROWS
  /\ firstCreated = FirstSeen({}, index.recs)

\* one caller
Init ==
  /\ InitCallers
  /\ now = TICKS_PER_SEC
  /\ nrows \in (MIN_ROWS - 1)..(MIN_ROWS + ExtraRows)
  /\ \/ InitIndex
     \/ index = Emptied /\ nrows = MIN_ROWS /\ firstCreated = {}
  /\ active = {"A"}
  /\ callsLeft = MaxCalls
  /\ faultsLeft = Unlimited

\* two concurrent callers, one sync call each at most, on a course that has
\* reached the bootstrap threshold; the two calls fall within one tick of
\* the clock
InitConc ==
  /\ InitCallers
  /\ now = MaxClock - 1
  /\ nrows = MIN_ROWS
  /\ InitIndex
  /\ active = Callers
  /\ callsLeft = Cardinality(Callers)
  /\ faultsLeft = ConcFaults

\* ------------------------------------------------------------ control
\* a collaborator call fails: one failure of the budget, if any, is spent
Inject ==
  /\ faultsLeft # 0
  /\ faultsLeft' = IF faultsLeft = Unlimited THEN Unlimited ELSE faultsLeft - 1

\* the locals of a try die with it
ResetLocals(p) ==
  /\ path' = [path EXCEPT ![p] = "none"]
  /\ last_id' = [last_id EXCEPT ![p] = 0]
  /\ prev' = [prev EXCEPT ![p] = NoPrev]
  /\ meta' = [meta EXCEPT ![p] = NoRec]

\* how the wrapper leaves a try: sleeps and tries again, returns, or raises
Ctl(p, kind, hk, rep, w, res) ==
  /\ hist' = [hist EXCEPT ![p] = Append(@, hk)]
  /\ reported' = [reported EXCEPT ![p] = @ + rep]
  /\ wait' = [wait EXCEPT ![p] = IF kind = "backoff" THEN w ELSE 0]
  /\ pc' = [pc EXCEPT ![p] = IF kind = "backoff" THEN "attempt" ELSE "done"]
  /\ outcome' = [outcome EXCEPT ![p] = IF kind = "backoff" THEN @ ELSE kind]
  /\ result' = [result EXCEPT ![p] = IF kind = "returned" THEN res ELSE @]
  /\ ResetLocals(p)

\* try number t of caller p raised e out of log_convo_to_nomic
Throw(p, e, t) ==
  \E o \in retry(e, t) : Ctl(p, o.kind, KindOf(e), o.rep, o.wait, PyNone)

\* a variant that never recognises the not-configured message
IsNotConfiguredNever(m) == FALSE

\* str(e) == 'You must specify a unique_id_field ...' (line 189)
IsNotConfigured(m) == m = NOT_CONFIGURED

\* "except Exception as e" of log_convo_to_nomic (lines 188-195)
Except(p, m, t) ==
  IF IsNotConfigured(m)
    THEN /\ pc' = [pc EXCEPT ![p] = "bootstrap"]
         /\ ResetLocals(p)
         /\ UNCHANGED <<hist, wait, result, outcome, reported>>
    ELSE Throw(p, Wrapped(m), t)

\* a variant in which leaving the with-block keeps the lock
ReleaseNever(p) == UNCHANGED lockHolder

\* leaving "with project.wait_for_project_lock()", normally or by exception
Release(p) == lockHolder' = NoCaller

\* ------------------------------------------------------------ actions
\* the conversation-handling flow calls log_convo_to_nomic(course, conversation)
StartCall(p) ==
  /\ p \in active
  /\ pc[p] \in {"idle", "done"}
  /\ callsLeft > 0
  /\ callsLeft' = callsLeft - 1
  /\ \E c \in ConvInputs :
       /\ conv' = [conv EXCEPT ![p] = c]
       /\ hadRecord' = [hadRecord EXCEPT ![p] = MatchRows(index.recs, c.id) # {}]
  /\ pc' = [pc EXCEPT ![p] = "attempt"]
  /\ tries' = [tries EXCEPT ![p] = 0]
  /\ hist' = [hist EXCEPT ![p] = <<>>]
  /\ wait' = [wait EXCEPT ![p] = 0]
  /\ result' = [result EXCEPT ![p] = PyNone]
  /\ outcome' = [outcome EXCEPT ![p] = "none"]
  /\ reported' = [reported EXCEPT ![p] = 0]
  /\ boots' = [boots EXCEPT ![p] = 0]
  /\ bootResult' = [bootResult EXCEPT ![p] = PyNone]
  /\ bootErr' = [bootErr EXCEPT ![p] = ""]
  /\ UNCHANGED <<index, lockHolder, faultsLeft, firstCreated, now, nrows,
                 active, attemptLocals, mapCall>>

\* one try, lines 55-99 and 137-177: login, field extraction, open, snapshot
\* read, locate, and on the INSERT branch the new record and its embedding
Attempt(p) ==
  /\ pc[p] = "attempt"
  /\ tries' = [tries EXCEPT ![p] = @ + 1]
  /\ UNCHANGED <<index, lockHolder, firstCreated, env, boot, conv,
                 mapCall, hadRecord>>
  /\ LET t == tries[p] + 1
         c == conv[p]
         recs == index.recs
     IN
     \/ \* nomic.login fails, outside the try
        /\ Inject
        /\ Throw(p, Raw(OTHER_ERROR), t)
     \/ \* conversation['conversation'][...] fails, outside the try
        /\ ~c.wf
        /\ UNCHANGED faultsLeft
        /\ Throw(p, Raw(KEY_ERROR), t)
     \/ \* AtlasProject(...) on a course without a project
        /\ c.wf /\ ~index.exists
        /\ UNCHANGED faultsLeft
        /\ Except(p, NOT_CONFIGURED, t)
     \/ \* AtlasProject(...) or the snapshot read fails
        /\ c.wf /\ index.exists
        /\ Inject
        /\ \E m \in ErrMsgs : Except(p, m, t)
     \/ \* the id column cannot be cast to int
        /\ c.wf /\ index.exists /\ HasNaNId(recs)
        /\ UNCHANGED faultsLeft
        /\ Except(p, CAST_ERROR, t)
     \/ \* found in the frame's values, but in no conversation_id cell
        /\ c.wf /\ index.exists /\ ~HasNaNId(recs)
        /\ InValues(recs, c.id) /\ MatchRows(recs, c.id) = {}
        /\ UNCHANGED faultsLeft
        /\ Except(p, INDEX_ERROR, t)
     \/ \* UPDATE branch: keep the prior record's fields
        /\ c.wf /\ index.exists /\ ~HasNaNId(recs)
        /\ InValues(recs, c.id) /\ MatchRows(recs, c.id) # {}
        /\ path' = [path EXCEPT ![p] = "update"]
        /\ last_id' = [last_id EXCEPT ![p] = LastId(recs)]
        /\ prev' = [prev EXCEPT ![p] = PrevData(recs, c.id)]
        /\ pc' = [pc EXCEPT ![p] = "delete"]
        /\ UNCHANGED <<faultsLeft, meta, hist, wait, result, outcome, reported>>
     \/ \* INSERT branch with no message: messages[0] fails
        /\ c.wf /\ index.exists /\ ~HasNaNId(recs)
        /\ ~InValues(recs, c.id) /\ c.messages = <<>>
        /\ UNCHANGED faultsLeft
        /\ Except(p, INDEX_ERROR, t)
     \/ \* INSERT branch, embed_documents fails
        /\ c.wf /\ index.exists /\ ~HasNaNId(recs)
        /\ ~InValues(recs, c.id) /\ c.messages # <<>>
        /\ Inject
        /\ \E m \in ErrMsgs : Except(p, m, t)
     \/ \* INSERT branch
        /\ c.wf /\ index.exists /\ ~HasNaNId(recs)
        /\ ~InValues(recs, c.id) /\ c.messages # <<>>
        /\ path' = [path EXCEPT ![p] = "insert"]
        /\ last_id' = [last_id EXCEPT ![p] = LastId(recs)]
        /\ meta' = [meta EXCEPT ![p] = InsertRecord(c, LastId(recs), now)]
        /\ pc' = [pc EXCEPT ![p] = "lock"]
        /\ UNCHANGED <<faultsLeft, prev, hist, wait, result, outcome, reported>>

\* UPDATE branch, lines 101-135: delete the prior point, build the merged one
Delete(p) ==
  /\ pc[p] = "delete"
  /\ UNCHANGED <<lockHolder, firstCreated, env, boot, conv, tries,
                 mapCall, hadRecord>>
  /\ \/ \* delete_data fails
        /\ Inject
        /\ \E m \in ErrMsgs : Except(p, m, tries[p])
        /\ UNCHANGED index
     \/ /\ index' = [index EXCEPT !.recs = DeleteData(@, prev[p].id)]
        /\ meta' = [meta EXCEPT ![p] =
                      MergedRecord(conv[p], prev[p], last_id[p], now)]
        /\ pc' = [pc EXCEPT ![p] = "lock"]
        /\ UNCHANGED <<faultsLeft, path, last_id, prev,
                       hist, wait, result, outcome, reported>>

\* lines 180-181: reopen the project and wait for its lock
Lock(p) ==
  /\ pc[p] = "lock"
  /\ UNCHANGED <<index, firstCreated, env, boot, conv, tries,
                 mapCall, hadRecord>>
  /\ \/ \* AtlasProject(...) fails
        /\ Inject
        /\ \E m \in ErrMsgs : Except(p, m, tries[p])
        /\ UNCHANGED lockHolder
     \/ /\ lockHolder = NoCaller
        /\ lockHolder' = p
        /\ pc' = [pc EXCEPT ![p] = "add"]
        /\ UNCHANGED <<faultsLeft, attemptLocals,
                       hist, wait, result, outcome, reported>>

\* line 182: add_embeddings under the lock
Add(p) ==
  /\ pc[p] = "add"
  /\ UNCHANGED <<env, boot, conv, tries, mapCall, hadRecord>>
  /\ \/ \* add_embeddings fails; the with-block releases the lock
        /\ Inject
        /\ \E m \in ErrMsgs : Except(p, m, tries[p])
        /\ Release(p)
        /\ UNCHANGED <<index, firstCreated>>
     \/ /\ index' = [index EXCEPT !.recs = AddEmbeddings(@, meta[p])]
        /\ firstCreated' = FirstSeen(firstCreated, <<meta[p]>>)
        /\ pc' = [pc EXCEPT ![p] = "rebuild"]
        /\ UNCHANGED <<lockHolder, faultsLeft, attemptLocals,
                       hist, wait, result, outcome, reported>>

\* lines 183-186: rebuild_maps under the lock, then return the success string
Rebuild(p) ==
  /\ pc[p] = "rebuild"
  /\ UNCHANGED <<index, firstCreated, env, boot, conv, tries,
                 mapCall, hadRecord>>
  /\ Release(p)
  /\ \/ /\ Inject
        /\ \E m \in ErrMsgs : Except(p, m, tries[p])
     \/ /\ UNCHANGED faultsLeft
        /\ Ctl(p, "returned", "ok", 0, 0, SuccessLogged)

\* lines 189-192: the fallback through create_nomic_map; the function then
\* ends without a return statement
Bootstrap(p) ==
  /\ pc[p] = "bootstrap"
  /\ UNCHANGED <<lockHolder, env, conv, tries, mapCall, hadRecord>>
  /\ \E b \in create_nomic_map(index, conv[p], nrows, now) :
       /\ IF b.injected THEN Inject ELSE UNCHANGED faultsLeft
       /\ index' = b.index
       /\ firstCreated' =
            IF b.index = index THEN firstCreated
            ELSE FirstSeen(firstCreated, b.index.recs)
       /\ boots' = [boots EXCEPT ![p] = @ + 1]
       /\ bootResult' = [bootResult EXCEPT ![p] = b.ret]
       /\ bootErr' = [bootErr EXCEPT ![p] = b.err]
       /\ IF b.raised
            THEN \E o \in retry(Raw(b.err), tries[p]) :
                   Ctl(p, o.kind, "nc", o.rep, o.wait, PyNone)
            ELSE Ctl(p, "returned", "nc", b.reported, 0, PyNone)

\* time passes
Tick ==
  /\ now < MaxClock
  /\ now' = now + 1
  /\ UNCHANGED <<index, lockHolder, faultsLeft, firstCreated, nrows, active,
                 callsLeft, ctl, conv, tries, attemptLocals, boot,
                 mapCall, hadRecord>>

\* the map page asks for the course's map: get_nomic_map(course_name)
GetNomicMap(p) ==
  /\ \E o \in get_nomic_map(index) :
       /\ IF o.injected THEN Inject ELSE UNCHANGED faultsLeft
       /\ mapCall' = [mapCall EXCEPT ![p] = o]
  /\ UNCHANGED <<index, lockHolder, firstCreated, env, ctl, conv, tries,
                 attemptLocals, boot, hadRecord>>

Next ==
  \/ \E p \in Callers : StartCall(p)
  \/ \E p \in Callers : Attempt(p)
  \/ \E p \in Callers : Delete(p)
  \/ \E p \in Callers : Lock(p)
  \/ \E p \in Callers : Add(p)
  \/ \E p \in Callers : Rebuild(p)
  \/ \E p \in Callers : Bootstrap(p)
  \/ Tick

Spec == Init /\ [][Next]_vars

SpecConc == InitConc /\ [][Next]_vars

\* get_nomic_map calls on a course in any of its project states
NextMap == \E p \in Callers : GetNomicMap(p)

SpecMap == Init /\ [][NextMap]_vars

\* ------------------------------------------------------------ properties
Last(q) == q[Len(q)]

AllLock(h) == \A i \in DOMAIN h : h[i] = "lock"

Ended(p) == pc[p] = "done"

\* C1: log_convo_to_nomic never propagates an exception to its caller,
\* whatever the conversation value and whichever collaborator fails.
C1_NeverRaises == \A p \in Callers : outcome[p] # "raised"

\* C2: every call that returns hands back a status string, never None.
C2_ReturnsStatusString ==
  \A p \in Callers : outcome[p] = "returned" => result[p].isStr

\* C3: a call whose first two tries fail with a LOCK_EXCEPTIONS message and
\* whose third try succeeds makes exactly 3 tries and returns the success
\* string; in particular it does not end after the first or second failure.
C3_TwoLocksThenSuccess ==
  \A p \in Callers :
    /\ hist[p] \in {<<"lock">>, <<"lock", "lock">>} => ~Ended(p)
    /\ (/\ Len(hist[p]) >= 3
        /\ hist[p][1] = "lock" /\ hist[p][2] = "lock" /\ hist[p][3] = "ok")
       => /\ Ended(p)
          /\ tries[p] = 3
          /\ hist[p] = <<"lock", "lock", "ok">>
          /\ outcome[p] = "returned"
          /\ result[p] = SuccessLogged

C3_Witness ==
  \E p \in Callers : Ended(p) /\ hist[p] = <<"lock", "lock", "ok">>

\* C4: a call never makes more than MAX_TRIES tries, and a call all of whose
\* tries failed with a LOCK_EXCEPTIONS message has ended after exactly
\* MAX_TRIES tries by returning, not by raising.
C4_StopsAfterMaxTries ==
  \A p \in Callers :
    /\ tries[p] <= MAX_TRIES
    /\ Len(hist[p]) <= tries[p]
    /\ (Ended(p) /\ hist[p] # <<>> /\ AllLock(hist[p]))
       => (tries[p] = MAX_TRIES /\ outcome[p] = "returned")
    /\ (tries[p] = MAX_TRIES /\ Len(hist[p]) = MAX_TRIES) => Ended(p)

C4_Witness ==
  \E p \in Callers :
    Ended(p) /\ Len(hist[p]) = MAX_TRIES /\ AllLock(hist[p])
             /\ outcome[p] = "returned"

\* C5: a call that used up its tries on LOCK_EXCEPTIONS failures has been
\* reported to sentry when it returns.
C5_ExhaustionReported ==
  \A p \in Callers :
    (Ended(p) /\ Len(hist[p]) = MAX_TRIES /\ AllLock(hist[p]))
      => reported[p] >= 1

\* C6: a LOCK_EXCEPTIONS failure is never reported as a hard failure and is
\* retried (short of the last try), on the incremental path and inside
\* create_nomic_map alike.
C6_TransientAlwaysRetried ==
  \A p \in Callers :
    /\ (hist[p] # <<>> /\ Last(hist[p]) = "lock")
         => (reported[p] = 0 /\ (Ended(p) => tries[p] = MAX_TRIES))
    /\ bootErr[p] \in LOCK_EXCEPTIONS
         => (reported[p] = 0 /\ bootResult[p] # Failed /\ ~Ended(p))

\* C7: once a try meets the not-configured message the call invokes
\* create_nomic_map exactly once and ends with it: no try follows, whatever
\* create_nomic_map returned or raised.
C7_BootstrapOnce ==
  \A p \in Callers :
    /\ boots[p] <= 1
    /\ pc[p] = "bootstrap" => (boots[p] = 0 /\ tries[p] = Len(hist[p]) + 1)
    /\ (hist[p] # <<>> /\ Last(hist[p]) = "nc")
         => (boots[p] = 1 /\ Ended(p) /\ tries[p] = Len(hist[p]))
    /\ boots[p] = 1 => (Ended(p) /\ Last(hist[p]) = "nc")

C7_Witness ==
  \E p \in Callers : Ended(p) /\ boots[p] = 1 /\ bootResult[p] = Failed

\* C8: the record stored for a conversation id carries the created_at of
\* that id's first insertion.
C8_CreatedAtFixed ==
  \A i \in DOMAIN index.recs :
    index.recs[i].conversation_id \in CIDS
      => <<index.recs[i].conversation_id, index.recs[i].created_at>>
           \in firstCreated

\* C9 as stated: on the UPDATE path the record written back has the row id
\* of the prior record.
C9_RowIdPreserved ==
  \A p \in Callers :
    (pc[p] = "rebuild" /\ path[p] = "update") => meta[p].id = prev[p].id

\* C9 amended: on the UPDATE path the record written back has row id
\* last_id + 1, the snapshot's largest row id plus one, which is greater
\* than the prior record's row id.
C9_RowIdIsNext ==
  \A p \in Callers :
    (pc[p] \in {"lock", "add", "rebuild"} /\ path[p] = "update")
      => /\ meta[p].id = last_id[p] + 1
         /\ meta[p].id > prev[p].id

C9_Witness ==
  \E p \in Callers :
    pc[p] = "rebuild" /\ path[p] = "update" /\ Last(index.recs) = meta[p]

\* C10: no two records of the course's project share a row id.
C10_RowIdsUnique ==
  \A i, j \in DOMAIN index.recs :
    i # j => index.recs[i].id # index.recs[j].id

\* C11: on the INSERT branch the new record gets row id 1 when the snapshot
\* holds no record, and k + 1 when the snapshot's largest row id is k.
C11_InsertRowId ==
  \A p \in Callers :
    (pc[p] \in {"lock", "add", "rebuild"} /\ path[p] = "insert")
      => meta[p].id = (IF last_id[p] = NaN THEN 1 ELSE last_id[p] + 1)

\* C12: on the UPDATE branch the transcript of the merged record is the
\* transcript stored for the conversation followed by the formatted lines of
\* the newest min(2, n) of its n messages: the stored transcript is an
\* unchanged prefix, nothing is dropped as a duplicate, and a list of fewer
\* than 2 messages is merged like any other.
C12_TranscriptAppend ==
  [][ \A p \in Callers :
        (pc[p] = "delete" /\ pc'[p] = "lock")
          => LET stored == index.recs[MinOf(MatchRows(index.recs, conv[p].id))].conversation
                 msgs == conv[p].messages
                 n == Len(msgs)
                 k == IF n < 2 THEN n ELSE 2
                 new == meta'[p].conversation
             IN  /\ Len(new) = Len(stored) + k
                 /\ SubSeq(new, 1, Len(stored)) = stored
                 /\ \A j \in 1..k : new[Len(stored) + j] = FormatLine(msgs[n - k + j])
    ]_vars

C12_Witness ==
  \E p \in Callers :
    /\ pc[p] = "rebuild" /\ path[p] = "update"
    /\ Len(conv[p].messages) = 1
    /\ Len(Last(index.recs).conversation) = Len(prev[p].conversation) + 1

\* C13: on the UPDATE branch the embedding carried into the merged record is
\* the embedding the project stores with that conversation's own prior
\* record.
C13_EmbeddingCarried ==
  \A p \in Callers :
    /\ (pc[p] = "delete" /\ MatchRows(index.recs, conv[p].id) # {})
         => prev[p].emb =
              index.recs[MinOf(MatchRows(index.recs, conv[p].id))].emb
    /\ (pc[p] \in {"lock", "add", "rebuild"} /\ path[p] = "update")
         => meta[p].emb = prev[p].emb

C15_EmptyDescriptor ==
  \A p \in Callers :
    LET c == mapCall[p]
    IN  c.outcome # "none"
          => /\ c.outcome = "returned"
             /\ ~index.exists => c.ret = EmptyDescriptor
             /\ c.err = NOT_CONFIGURED
                  => (c.ret = EmptyDescriptor /\ c.reported = 0)
             /\ c.err \notin {"", NOT_CONFIGURED}
                  => (c.ret = EmptyDescriptor /\ c.reported = 1)

\* caller p leaves a failed try to sleep and try again
BackoffStep(p) ==
  pc'[p] = "attempt" /\ Len(hist'[p]) = Len(hist[p]) + 1

\* C16 as stated: within one call every backoff sleep is strictly longer
\* than the sleep before it.
C16_WaitsIncrease ==
  [][ \A p \in Callers :
        (BackoffStep(p) /\ Len(hist[p]) >= 1) => wait'[p] > wait[p] ]_vars

\* C16 amended: the sleep after try t lies between 0 and the t-th value of
\* the exponential sequence, 1.5 s * 10^(t-1), and these upper limits are
\* strictly increasing from one try to the next.
C16_WaitBoundsIncrease ==
  [][ \A p \in Callers :
        BackoffStep(p)
          => LET t == tries'[p]
                 limit == EXPO_FACTOR * EXPO_BASE ^ (t - 1)
             IN  /\ t \in 1..(MAX_TRIES - 1)
                 /\ wait'[p] \in 0..limit
                 /\ t >= 2 => limit > EXPO_FACTOR * EXPO_BASE ^ (t - 2) ]_vars

C16_Witness ==
  \E p \in Callers :
    /\ pc[p] = "attempt" /\ Len(hist[p]) = 2
    /\ wait[p] = EXPO_FACTOR * EXPO_BASE

\* C17 as stated: every change an incremental try makes to the records of
\* the project happens while that try holds the project lock.
C17_EveryMutationLocked ==
  [][ (index.exists /\ index'.recs # index.recs)
        => \E p \in Callers :
             lockHolder = p /\ pc[p] \in {"add", "rebuild"} ]_vars

\* C17 amended: a caller holds the lock exactly while it is at add_embeddings
\* or rebuild_maps, so the lock is free again when the try has ended either
\* way; a record is added only by the caller that holds the lock; and a
\* caller that finds the lock held stays waiting for it unless reopening the
\* project fails.
C17_AddRebuildLocked ==
  [][ /\ \A p \in Callers :
           /\ (pc[p] \in {"add", "rebuild"}) <=> (lockHolder = p)
           /\ (pc'[p] \in {"add", "rebuild"}) <=> (lockHolder' = p)
           /\ (pc[p] = "lock" /\ lockHolder \notin {NoCaller, p}
                 /\ faultsLeft' = faultsLeft)
                => pc'[p] = "lock"
      /\ (index.exists /\ Len(index'.recs) > Len(index.recs))
           => \E p \in Callers : lockHolder = p /\ pc[p] = "add"
    ]_vars

C17_Witness ==
  \E p, q \in Callers :
    p # q /\ pc[p] = "lock" /\ lockHolder = q /\ pc[q] = "rebuild"

\* C18: when create_nomic_map builds the project for a triggering
\* conversation whose id is that of historical row k, record k carries the
\* row's own transcript followed by the lines of the newest 2 messages of
\* the triggering conversation only, and no further record is made for it.
C18_BootMergeLastTwo ==
  \A p \in Callers :
    (Ended(p) /\ boots[p] = 1 /\ bootResult[p] = SuccessCreated)
      => \A k \in 1..nrows :
           HistIds[k] = conv[p].id
             => /\ Len(index.recs) = nrows
                /\ index.recs[k].conversation =
                     FormatAll(HistRow(k).convo.messages) \o
                       FormatAll(SubSeq(conv[p].messages,
                                        Max(1, Len(conv[p].messages) - 1),
                                        Len(conv[p].messages)))

\* C19: a conversation that had a record in the project when a call for it
\* started has a record in the project when the call has ended.
C19_RecordSurvives ==
  \A p \in Callers :
    (Ended(p) /\ hadRecord[p]) => MatchRows(index.recs, conv[p].id) # {}

\* C20: the project holds at most one record per conversation id.
C20_OneRecordPerConversation ==
  \A i, j \in DOMAIN index.recs :
    i # j => index.recs[i].conversation_id # index.recs[j].conversation_id

====
